---- MODULE Spec2Model ----
(***************************************************************************)
(* MarkMyMedia: the video-marking pipeline (mark_video) and the batch      *)
(* runner (run_pipeline).                                                  *)
(*                                                                         *)
(* Spec      one call of mark_video, one action per step of the function   *)
(* SpecBatch one call of run_pipeline over a bounded file list             *)
(* SpecPair  the decisions of mark_video on two probe results              *)
(* SpecMain  one run of the command line: gather_files, then run_pipeline  *)
(***************************************************************************)
EXTENDS Integers, Sequences, FiniteSets, TLC

VARIABLES
    \* ---- mark_video: arguments
    input_path, output_path, resolution,
    \* ---- the filesystem: regular files, directories (as paths), directory names
    files, dirs, parents,
    \* ---- mark_video: locals and position
    pc, output_p, probe, width, height, video_codec,
    marker_container, marker_ts, main_ts,
    \* ---- mark_video: what happened
    invoked, raised, escaped, created, remove_failed,
    \* ---- run_pipeline
    b_pc, all_files, jobs, preserve_structure, stage, futures, consumed, summary,
    b_raised,
    \* ---- two probe results of one input and what mark_video decides on each
    p_pc, p_resolution, first_streams, second_streams, first_plan, second_plan,
    \* ---- main and gather_files: arguments, loop position, locals, outcome
    m_pc, input_paths, recursive, next_path, result, all_files_bound, warned,
    m_raised, exit_code

video_vars == <<input_path, output_path, resolution, files, dirs, parents,
                pc, output_p, probe, width, height, video_codec,
                marker_container, marker_ts, main_ts,
                invoked, raised, escaped, created, remove_failed>>

batch_vars == <<b_pc, all_files, jobs, preserve_structure, stage, futures, consumed,
                summary, b_raised>>

pair_vars == <<p_pc, p_resolution, first_streams, second_streams, first_plan, second_plan>>

main_vars == <<m_pc, input_paths, recursive, next_path, result, all_files_bound, warned,
               m_raised, exit_code>>

vars == <<video_vars, batch_vars, pair_vars, main_vars>>

non_video_vars == <<batch_vars, pair_vars, main_vars>>

non_batch_vars == <<video_vars, pair_vars, main_vars>>

non_pair_vars == <<video_vars, batch_vars, main_vars>>

non_main_vars == <<video_vars, batch_vars, pair_vars>>

(***************************************************************************)
(* Bounds of the model                                                     *)
(***************************************************************************)
MaxStreams == 2
MaxFiles == 3
MaxJobs == 2
MaxInputs == 2

(***************************************************************************)
(* Values                                                                  *)
(***************************************************************************)
\* Python's None. Every structured value of the model is a record, so None
\* compares unequal to each of them.
None == [none |-> TRUE]

Path(d, s, x) == [dir |-> d, stem |-> s, suffix |-> x]

Bytes(t) == [bytes |-> t]

Str(t) == [str |-> t]

\* bytes.decode('utf-8', 'ignore')
Decode(b) == Str(b.bytes)

\* str.lower() on the names the model uses
Lower(s) ==
    CASE s = "H264" -> "h264"
      [] s = "HEVC" -> "hevc"
      [] s = "AAC"  -> "aac"
      [] s = ".MP4" -> ".mp4"
      [] s = ".MKV" -> ".mkv"
      [] s = ".JPG" -> ".jpg"
      [] s = ".TXT" -> ".txt"
      [] OTHER      -> s

\* a video extension set that lacks .mkv
VIDEO_EXTS_WithoutMkv == {".mp4", ".mov", ".avi", ".webm", ".mpg", ".mpeg"}

IMAGE_EXTS == {".jpg", ".jpeg", ".png", ".bmp", ".gif", ".tiff", ".tif", ".webp"}

AUDIO_EXTS == {".mp3", ".flac", ".aac", ".m4a", ".ogg", ".opus"}

VIDEO_EXTS == {".mp4", ".mov", ".avi", ".mkv", ".webm", ".mpg", ".mpeg"}

(***************************************************************************)
(* errors.py: the exception classes and their bases                        *)
(***************************************************************************)
MarkerErrorClasses ==
    {"MarkerError", "FileError", "InputFileNotFoundError", "InvalidOutputPathError",
     "DependencyError", "FFmpegNotFoundError", "FFmpegProcessError",
     "MediaProcessingError", "UnsupportedFileTypeError", "AudioMarkingError",
     "ImageMarkingError", "VideoMarkingError", "InvalidMediaError"}

\* the base class each class statement names
BaseClass(c) ==
    CASE c = "MarkerError"              -> "Exception"
      [] c = "FileError"                -> "MarkerError"
      [] c = "InputFileNotFoundError"   -> "FileError"
      [] c = "InvalidOutputPathError"   -> "FileError"
      [] c = "DependencyError"          -> "MarkerError"
      [] c = "FFmpegNotFoundError"      -> "DependencyError"
      [] c = "FFmpegProcessError"       -> "DependencyError"
      [] c = "MediaProcessingError"     -> "MarkerError"
      [] c = "UnsupportedFileTypeError" -> "MediaProcessingError"
      [] c = "AudioMarkingError"        -> "MediaProcessingError"
      [] c = "ImageMarkingError"        -> "MediaProcessingError"
      [] c = "VideoMarkingError"        -> "MediaProcessingError"
      [] c = "InvalidMediaError"        -> "MediaProcessingError"
      [] c = "Exception"                -> "BaseException"
      [] OTHER                          -> "Exception"

RECURSIVE IsSubclass(_, _)
IsSubclass(c, base) ==
    IF c = base THEN TRUE
    ELSE IF c = "BaseException" THEN FALSE
    ELSE IsSubclass(BaseClass(c), base)

\* An exception object: its class, the error kind of the taxonomy it stands
\* for, the class of its __cause__, and the two attributes FFmpegProcessError
\* carries.
Exc(t, k, c) == [type |-> t, kind |-> k, cause |-> c, command |-> None, stderr |-> None]

isinstance(e, cls) == e # None /\ IsSubclass(e.type, cls)

\* FFmpegProcessError.__init__
FFmpegProcessError(command, stderr, c) ==
    [type |-> "FFmpegProcessError", kind |-> "external-process-failure",
     cause |-> c, command |-> command, stderr |-> stderr]

(***************************************************************************)
(* mark_video: the inputs a call is given                                  *)
(***************************************************************************)
InputPaths == {Path("in", "clip", ".mp4"), Path("in", "clip", ".MKV"), Path("in", "notes", ".txt")}

InputKinds == {"file", "dir", "missing"}

\* the output_path argument, and whether a directory already has that name
OutputChoices ==
    {[path |-> None, is_dir |-> FALSE],
     [path |-> Path("out", "clip_marked", ".mkv"), is_dir |-> FALSE],
     [path |-> Path("out", "clip_marked", ".mp4"), is_dir |-> FALSE],
     [path |-> Path("out", "clip_marked", ".mp4"), is_dir |-> TRUE],
     [path |-> Path("out", "clip_marked", ".MP4"), is_dir |-> FALSE],
     [path |-> Path("in", "clip", ".mp4"), is_dir |-> FALSE],
     [path |-> Path("out", "clip_marked", ".txt"), is_dir |-> FALSE]}

Resolutions == {None, [w |-> 640, h |-> 480], [w |-> 0, h |-> 480]}

\* one entry of the probe's "streams" list; a missing codec_name key reads as
\* "" (dict.get's default), a missing width or height as 0
Stream(t, c, w, h) == [codec_type |-> t, codec_name |-> c, width |-> w, height |-> h]

VideoStreams ==
    {Stream("video", c, d[1], d[2]) : c \in {"h264", "HEVC", "vp9"},
                                      d \in {<<1280, 720>>, <<0, 720>>}}

AudioStreams == {Stream("audio", c, 0, 0) : c \in {"aac", "mp3", ""}}

OtherStreams == {Stream("subtitle", "subrip", 0, 0)}

StreamDescriptors == VideoStreams \cup AudioStreams \cup OtherStreams

StreamLists == UNION {[1..n -> StreamDescriptors] : n \in 0..MaxStreams}

\* what _ffprobe_param returns: the parsed JSON, with or without a "streams" key
ProbeResults ==
    {[has_streams |-> FALSE, streams |-> <<>>]}
    \cup {[has_streams |-> TRUE, streams |-> s] : s \in StreamLists}

\* how a call of _ffprobe_param ends: a parsed result, a non-zero exit of
\* ffprobe (FFmpegProcessError), a missing executable (FFmpegNotFoundError),
\* or an unparsable output (any other exception)
ProbeOutcomes == {"ok", "FFmpegProcessError", "FFmpegNotFoundError", "Exception"}

\* how subprocess.run(cmd, check=True) ends: exit status 0, a non-zero exit
\* (CalledProcessError), or no executable to start (FileNotFoundError)
RunOutcomes == {"ok", "nonzero", "notfound"}

TempDir == "tmp"

TempPaths ==
    {Path(TempDir, "marker_uid", ".mp4"), Path(TempDir, "marker_uid", ".ts"),
     Path(TempDir, "main_uid", ".ts")}

(***************************************************************************)
(* mark_video: pure helpers                                                *)
(***************************************************************************)
exists(p) == p \in files \cup dirs

\* Path.with_stem(f"{stem}_marked")
with_stem_marked(p) == Path(p.dir, p.stem \o "_marked", p.suffix)

\* probe.get("streams", [])
GetStreams(pr) == IF pr.has_streams THEN pr.streams ELSE <<>>

\* the last stream of a kind instead of the first
FirstStream_Last(streams, kind) ==
    IF \E i \in 1..Len(streams) : streams[i].codec_type = kind
    THEN LET i == CHOOSE j \in 1..Len(streams) :
                    /\ streams[j].codec_type = kind
                    /\ \A k \in (j + 1)..Len(streams) : streams[k].codec_type # kind
         IN  streams[i]
    ELSE None

\* next((s for s in streams if s.get("codec_type") == kind), None)
FirstStream(streams, kind) ==
    IF \E i \in 1..Len(streams) : streams[i].codec_type = kind
    THEN LET i == CHOOSE j \in 1..Len(streams) :
                    /\ streams[j].codec_type = kind
                    /\ \A k \in 1..(j - 1) : streams[k].codec_type # kind
         IN  streams[i]
    ELSE None

\* a width taken from the probe even when an override is given
ResolveWidth_IgnoresOverride(res, vs) == vs.width

\* resolution[0] if resolution else int(video_stream.get("width", 0))
ResolveWidth(res, vs) == IF res # None THEN res.w ELSE vs.width

ResolveHeight(res, vs) == IF res # None THEN res.h ELSE vs.height

\* a whitelist that lets vp9 through
VideoCodecs_WithVp9 == {"h264", "hevc", "vp9"}

\* a whitelist that lets mp3 through
AudioCodecs_WithMp3 == {"", "aac", "mp3"}

\* the codec names stream copying accepts
VideoCodecs == {"h264", "hevc"}

AudioCodecs == {"", "aac"}

\* the checks with the codec check moved before the resolution check
ValidateStreams_CodecBeforeResolution(streams, res) ==
    LET vs == FirstStream(streams, "video")
        as == FirstStream(streams, "audio")
    IN  IF Len(streams) = 0 THEN "no-media-streams"
        ELSE IF vs = None THEN "no-video-stream"
        ELSE IF Lower(vs.codec_name) \notin {"h264", "hevc"} THEN "unsupported-video-codec"
        ELSE IF ResolveWidth(res, vs) <= 0 \/ ResolveHeight(res, vs) <= 0
             THEN "invalid-resolution"
        ELSE IF as # None /\ Lower(as.codec_name) \notin {"", "aac"}
             THEN "unsupported-audio-codec"
        ELSE "ok"

\* the checks without the one of an empty stream list
ValidateStreams_NoEmptyCheck(streams, res) ==
    LET vs == FirstStream(streams, "video")
        as == FirstStream(streams, "audio")
    IN  IF vs = None THEN "no-video-stream"
        ELSE IF ResolveWidth(res, vs) <= 0 \/ ResolveHeight(res, vs) <= 0
             THEN "invalid-resolution"
        ELSE IF Lower(vs.codec_name) \notin {"h264", "hevc"} THEN "unsupported-video-codec"
        ELSE IF as # None /\ Lower(as.codec_name) \notin {"", "aac"}
             THEN "unsupported-audio-codec"
        ELSE "ok"

\* the checks without the one of the audio codec
ValidateStreams_NoAudioCheck(streams, res) ==
    LET vs == FirstStream(streams, "video")
    IN  IF Len(streams) = 0 THEN "no-media-streams"
        ELSE IF vs = None THEN "no-video-stream"
        ELSE IF ResolveWidth(res, vs) <= 0 \/ ResolveHeight(res, vs) <= 0
             THEN "invalid-resolution"
        ELSE IF Lower(vs.codec_name) \notin {"h264", "hevc"} THEN "unsupported-video-codec"
        ELSE "ok"

\* the checks of a probe result, in the order of the code: the kind of the
\* InvalidMediaError raised, or "ok"
ValidateStreams(streams, res) ==
    LET vs == FirstStream(streams, "video")
        as == FirstStream(streams, "audio")
    IN  IF Len(streams) = 0 THEN "no-media-streams"
        ELSE IF vs = None THEN "no-video-stream"
        ELSE IF ResolveWidth(res, vs) <= 0 \/ ResolveHeight(res, vs) <= 0
             THEN "invalid-resolution"
        ELSE IF Lower(vs.codec_name) \notin VideoCodecs THEN "unsupported-video-codec"
        ELSE IF as # None /\ Lower(as.codec_name) \notin AudioCodecs
             THEN "unsupported-audio-codec"
        ELSE "ok"

video_encoder(codec) == IF codec = "h264" THEN "libx264" ELSE "libx265"

v_bsf(codec) == IF codec = "h264" THEN "h264_mp4toannexb" ELSE "hevc_mp4toannexb"

cmd_marker(codec, w, h, out) ==
    [tool |-> "ffmpeg", step |-> "synth", encoder |-> video_encoder(codec),
     size |-> <<w, h>>, dst |-> out]

cmd_remux(name, src, codec, dst) ==
    [tool |-> "ffmpeg", step |-> name, src |-> src, bsf_v |-> v_bsf(codec), dst |-> dst]

\* the extension compared without lower-casing
EndsWithMp4_CaseSensitive(p) == p.suffix = ".mp4"

\* str(output_p).lower().endswith(".mp4")
EndsWithMp4(p) == Lower(p.suffix) = ".mp4"

\* a concat input that lists the main segment first
final_cmd_MainFirst(mts, ts, out) ==
    [tool |-> "ffmpeg", step |-> "concat", concat_input |-> <<ts, mts>>,
     bsf_a |-> EndsWithMp4(out), dst |-> out]

final_cmd(mts, ts, out) ==
    [tool |-> "ffmpeg", step |-> "concat", concat_input |-> <<mts, ts>>,
     bsf_a |-> EndsWithMp4(out), dst |-> out]

\* the stderr argument every subprocess.run of mark_video passes
RunStderrArg == "STDOUT"

\* CalledProcessError.stderr: the captured bytes when stderr is a pipe, else None
CapturedStderr(arg) == IF arg = "PIPE" THEN Bytes("diagnostics") ELSE None

CalledProcessError(cmd) ==
    [type |-> "CalledProcessError", kind |-> "nonzero-exit", cause |-> "none",
     command |-> cmd, stderr |-> CapturedStderr(RunStderrArg)]

\* the except clauses of mark_video's try statement: the exception that
\* leaves the statement when e was raised in its body
ExceptClauses(e) ==
    IF isinstance(e, "CalledProcessError")
    THEN IF e.stderr = None
         THEN \* e.stderr.decode on None: raised inside the handler, so no
              \* later clause of the same try catches it
              Exc("AttributeError", "raw", "CalledProcessError")
         ELSE FFmpegProcessError(e.command, Decode(e.stderr), "CalledProcessError")
    ELSE IF \/ isinstance(e, "VideoMarkingError")
            \/ isinstance(e, "InvalidMediaError")
            \/ isinstance(e, "FFmpegNotFoundError")
         THEN e
    ELSE IF isinstance(e, "MarkerError") THEN e
    ELSE Exc("VideoMarkingError", "unexpected-processing-failure", e.type)

(***************************************************************************)
(* mark_video: one action per step of the function                         *)
(***************************************************************************)
BatchIdle ==
    /\ b_pc = "idle"
    /\ all_files = <<>>
    /\ jobs = 0
    /\ preserve_structure = FALSE
    /\ stage = 0
    /\ futures = <<>>
    /\ consumed = {}
    /\ summary = <<>>
    /\ b_raised = "none"

PairIdle ==
    /\ p_pc = "idle"
    /\ p_resolution = None
    /\ first_streams = <<>>
    /\ second_streams = <<>>
    /\ first_plan = None
    /\ second_plan = None

MainIdle ==
    /\ m_pc = "idle"
    /\ input_paths = <<>>
    /\ recursive = FALSE
    /\ next_path = 0
    /\ result = <<>>
    /\ all_files_bound = FALSE
    /\ warned = FALSE
    /\ m_raised = "none"
    /\ exit_code = -1

\* the state in which mark_video is called
VideoInit ==
    /\ input_path \in InputPaths
    /\ \E kind \in InputKinds, out \in OutputChoices :
          /\ output_path = out.path
          /\ files = IF kind = "file" THEN {input_path} ELSE {}
          /\ dirs = (IF kind = "dir" THEN {input_path} ELSE {})
                    \cup (IF out.is_dir THEN {out.path} ELSE {})
    /\ parents \in {{"in", TempDir}, {"in", TempDir, "out"}}
    /\ resolution \in Resolutions
    /\ pc = "start"
    /\ output_p = None
    /\ probe = None
    /\ width = 0
    /\ height = 0
    /\ video_codec = ""
    /\ marker_container = None
    /\ marker_ts = None
    /\ main_ts = None
    /\ invoked = <<>>
    /\ raised = None
    /\ escaped = None
    /\ created = {}
    /\ remove_failed = {}

Init == VideoInit /\ BatchIdle /\ PairIdle /\ MainIdle

\* an exception leaves mark_video before its try statement is entered
\* a check that is made only after the output's parent directory was created
RaiseEarly_AfterMkdir(e) ==
    /\ escaped' = e
    /\ pc' = "done"
    /\ parents' = parents \cup {IF output_path = None THEN input_path.dir
                                 ELSE output_path.dir}
    /\ UNCHANGED output_p

RaiseEarly(e) ==
    /\ escaped' = e
    /\ pc' = "done"
    /\ UNCHANGED <<output_p, parents>>

\* lines 46-76: the checks of the two paths and the creation of the output's
\* parent directory
ValidatePaths ==
    /\ pc = "start"
    /\ IF ~exists(input_path)
       THEN RaiseEarly(Exc("InputFileNotFoundError", "input-not-found", "none"))
       ELSE IF input_path \notin files
       THEN RaiseEarly(Exc("FileError", "input-not-a-file", "none"))
       ELSE IF Lower(input_path.suffix) \notin VIDEO_EXTS
       THEN RaiseEarly(Exc("UnsupportedFileTypeError", "unsupported-file-type", "none"))
       ELSE IF output_path # None /\ Lower(output_path.suffix) \notin VIDEO_EXTS
       THEN RaiseEarly(Exc("InvalidOutputPathError", "invalid-output-path", "none"))
       ELSE IF output_path # None /\ output_path \in dirs
       THEN RaiseEarly(Exc("InvalidOutputPathError", "invalid-output-path", "none"))
       ELSE LET out == IF output_path = None THEN with_stem_marked(input_path)
                       ELSE output_path
            IN  \* mkdir(parents=True, exist_ok=True) may fail with OSError
                \/ /\ output_p' = out
                   /\ parents' = parents \cup {out.dir}
                   /\ pc' = "probe"
                   /\ UNCHANGED escaped
                \/ /\ out.dir \notin parents
                   /\ output_p' = out
                   /\ escaped' = Exc("InvalidOutputPathError", "invalid-output-path", "OSError")
                   /\ pc' = "done"
                   /\ UNCHANGED parents
    /\ UNCHANGED non_video_vars
    /\ UNCHANGED <<input_path, output_path, resolution, files, dirs, probe, width,
                   height, video_codec, marker_container, marker_ts, main_ts,
                   invoked, raised, created, remove_failed>>

Invocation(cmd, exit) == [cmd |-> cmd, exit |-> exit]

cmd_probe(src) == [tool |-> "ffprobe", step |-> "probe", src |-> src]

\* the exception a call of _ffprobe_param ends with
ProbeException(o, src) ==
    CASE o = "FFmpegProcessError" -> FFmpegProcessError(cmd_probe(src), None, "none")
      [] o = "FFmpegNotFoundError" -> Exc("FFmpegNotFoundError", "tool-not-found", "none")
      [] OTHER -> Exc("Exception", "raw", "none")

\* the probe's exception let through unwrapped
ProbeExcept_NoWrap(e) == e

\* lines 81-82: the except clause around the probe
ProbeExcept(e) ==
    IF isinstance(e, "FFmpegProcessError")
    THEN Exc("VideoMarkingError", "probe-failure", e.type)
    ELSE e

\* lines 78-82: the probe, and the wrapping of its FFmpegProcessError
Probe ==
    /\ pc = "probe"
    /\ \E o \in ProbeOutcomes :
          /\ invoked' = Append(invoked, Invocation(cmd_probe(input_path),
                            CASE o = "FFmpegProcessError" -> "nonzero"
                              [] o = "FFmpegNotFoundError" -> "notfound"
                              [] OTHER -> "ok"))
          /\ IF o = "ok"
             THEN /\ probe' \in ProbeResults
                  /\ pc' = "validate"
                  /\ UNCHANGED raised
             ELSE /\ raised' = ProbeExcept(ProbeException(o, input_path))
                  /\ pc' = "except"
                  /\ UNCHANGED probe
    /\ UNCHANGED non_video_vars
    /\ UNCHANGED <<input_path, output_path, resolution, files, dirs, parents, output_p,
                   width, height, video_codec, marker_container, marker_ts, main_ts,
                   escaped, created, remove_failed>>

\* lines 84-113: the checks of the probe result
Validate ==
    /\ pc = "validate"
    /\ LET streams == GetStreams(probe)
           verdict == ValidateStreams(streams, resolution)
           vs      == FirstStream(streams, "video")
       IN  IF verdict # "ok"
           THEN /\ raised' = Exc("InvalidMediaError", verdict, "none")
                /\ pc' = "except"
                /\ UNCHANGED <<width, height, video_codec>>
           ELSE /\ width' = ResolveWidth(resolution, vs)
                /\ height' = ResolveHeight(resolution, vs)
                /\ video_codec' = Lower(vs.codec_name)
                /\ pc' = "synth"
                /\ UNCHANGED raised
    /\ UNCHANGED non_video_vars
    /\ UNCHANGED <<input_path, output_path, resolution, files, dirs, parents, output_p,
                   probe, marker_container, marker_ts, main_ts, invoked, escaped,
                   created, remove_failed>>

\* subprocess.run without check=True: a non-zero exit is not noticed
Run_NoCheck(cmd, dst, next) ==
    \E exit \in RunOutcomes, partial \in BOOLEAN :
       /\ invoked' = Append(invoked, Invocation(cmd, exit))
       /\ IF exit \in {"ok", "nonzero"}
          THEN /\ partial
               /\ files' = files \cup {dst}
               /\ created' = created \cup ({dst} \cap TempPaths)
               /\ pc' = next
               /\ UNCHANGED raised
          ELSE /\ partial
               /\ raised' = Exc("FileNotFoundError", "raw", "none")
               /\ pc' = "except"
               /\ UNCHANGED <<files, created>>

\* subprocess.run(cmd, check=True, ...): the process writes dst when it
\* succeeds and may leave a partial dst behind when it fails
Run(cmd, dst, next) ==
    \E exit \in RunOutcomes, partial \in BOOLEAN :
       /\ invoked' = Append(invoked, Invocation(cmd, exit))
       /\ CASE exit = "ok" ->
                 /\ partial
                 /\ files' = files \cup {dst}
                 /\ created' = created \cup ({dst} \cap TempPaths)
                 /\ pc' = next
                 /\ UNCHANGED raised
            [] exit = "nonzero" ->
                 /\ files' = IF partial THEN files \cup {dst} ELSE files
                 /\ created' = IF partial THEN created \cup ({dst} \cap TempPaths) ELSE created
                 /\ raised' = CalledProcessError(cmd)
                 /\ pc' = "except"
            [] OTHER ->
                 /\ partial
                 /\ raised' = Exc("FileNotFoundError", "raw", "none")
                 /\ pc' = "except"
                 /\ UNCHANGED <<files, created>>

\* lines 116-139: the temporary names and the marker clip
Synthesize ==
    /\ pc = "synth"
    /\ marker_container' = Path(TempDir, "marker_uid", ".mp4")
    /\ marker_ts' = Path(TempDir, "marker_uid", ".ts")
    /\ main_ts' = Path(TempDir, "main_uid", ".ts")
    /\ Run(cmd_marker(video_codec, width, height, marker_container'),
           marker_container', "remux_marker")
    /\ UNCHANGED non_video_vars
    /\ UNCHANGED <<input_path, output_path, resolution, dirs, parents, output_p, probe,
                   width, height, video_codec, escaped, remove_failed>>

\* lines 143-152, first turn of the loop: the marker to MPEG-TS
RemuxMarker ==
    /\ pc = "remux_marker"
    /\ Run(cmd_remux("remux_marker", marker_container, video_codec, marker_ts),
           marker_ts, "remux_main")
    /\ UNCHANGED non_video_vars
    /\ UNCHANGED <<input_path, output_path, resolution, dirs, parents, output_p, probe,
                   width, height, video_codec, marker_container, marker_ts, main_ts,
                   escaped, remove_failed>>

\* lines 143-152, second turn of the loop: the input to MPEG-TS
RemuxMain ==
    /\ pc = "remux_main"
    /\ Run(cmd_remux("remux_main", input_path, video_codec, main_ts), main_ts, "concat")
    /\ UNCHANGED non_video_vars
    /\ UNCHANGED <<input_path, output_path, resolution, dirs, parents, output_p, probe,
                   width, height, video_codec, marker_container, marker_ts, main_ts,
                   escaped, remove_failed>>

\* lines 154-165: the concatenation into the output
Concat ==
    /\ pc = "concat"
    /\ Run(final_cmd(marker_ts, main_ts, output_p), output_p, "cleanup")
    /\ UNCHANGED non_video_vars
    /\ UNCHANGED <<input_path, output_path, resolution, dirs, parents, output_p, probe,
                   width, height, video_codec, marker_container, marker_ts, main_ts,
                   escaped, remove_failed>>

\* lines 167-174: the exception raised in the try body meets the except clauses
Except ==
    /\ pc = "except"
    /\ escaped' = ExceptClauses(raised)
    /\ pc' = "cleanup"
    /\ UNCHANGED non_video_vars
    /\ UNCHANGED <<input_path, output_path, resolution, files, dirs, parents, output_p,
                   probe, width, height, video_codec, marker_container, marker_ts,
                   main_ts, invoked, raised, created, remove_failed>>

\* a finally block that forgets the main transport segment
CleanupPaths_WithoutMainTs(mc, mts, ts) == {p \in {mc, mts} : p # None}

\* the paths the finally block visits
CleanupPaths(mc, mts, ts) == {p \in {mc, mts, ts} : p # None}

\* lines 175-181: the finally block. os.remove is tried on every named path
\* that exists; an OSError of it is swallowed and the file stays.
Cleanup ==
    /\ pc = "cleanup"
    /\ LET present == {p \in CleanupPaths(marker_container, marker_ts, main_ts) :
                          p \in files}
       IN  \E failed \in SUBSET present :
              /\ files' = files \ (present \ failed)
              /\ remove_failed' = failed
    /\ pc' = "done"
    /\ UNCHANGED non_video_vars
    /\ UNCHANGED <<input_path, output_path, resolution, dirs, parents, output_p, probe,
                   width, height, video_codec, marker_container, marker_ts, main_ts,
                   invoked, raised, escaped, created>>

VideoNext ==
    \/ ValidatePaths
    \/ Probe
    \/ Validate
    \/ Synthesize
    \/ RemuxMarker
    \/ RemuxMain
    \/ Concat
    \/ Except
    \/ Cleanup

Next == VideoNext

Spec == Init /\ [][Next]_vars

(***************************************************************************)
(* run_pipeline: the batch over the three modalities                       *)
(***************************************************************************)
BatchFiles ==
    {Path("in", "a", ".JPG"), Path("in", "b", ".mp3"), Path("in", "b", ".flac"),
     Path("in", "c", ".mp4"), Path("in", "e", ".txt")}

\* the directories of the model: "." is the working directory, "/" the root
ParentDir(d) ==
    CASE d = "in/sub" -> "in"
      [] d = "in" -> "."
      [] d = "out" -> "."
      [] OTHER -> "/"

\* the last component of a directory
DirName(d) == IF d = "in/sub" THEN "sub" ELSE d

RECURSIVE IsUnder(_, _)
IsUnder(d, base) ==
    \/ d = base
    \/ d # "/" /\ IsUnder(ParentDir(d), base)

\* PurePath.relative_to(base) for a directory under base: the components
\* below base (a directory that is not under base raises ValueError)
RECURSIVE relative_to(_, _)
relative_to(d, base) ==
    IF d = base THEN <<>> ELSE Append(relative_to(ParentDir(d), base), DirName(d))

\* base / relative_dir
RECURSIVE JoinDir(_, _)
JoinDir(base, parts) ==
    IF parts = <<>> THEN base ELSE JoinDir(base \o "/" \o Head(parts), Tail(parts))

output_base == "out"

cwd == "."

construct_output_path(path, base_out, modality, preserve) ==
    LET target_dir == IF preserve /\ IsUnder(path.dir, cwd)
                      THEN JoinDir(base_out, relative_to(path.dir, cwd))
                      ELSE base_out
    IN  IF modality = "audio"
        THEN Path(target_dir, path.stem, ".mp4")
        ELSE Path(target_dir, path.stem \o "_marked", path.suffix)

\* the file lists of the model name every file once
FileLists ==
    {fs \in UNION {[1..n -> BatchFiles] : n \in 1..MaxFiles} :
        \A i \in 1..Len(fs) : \A j \in 1..Len(fs) : fs[i] = fs[j] => i = j}

\* categorize: the bucket a file's extension puts it in
Modality(f) ==
    LET ext == Lower(f.suffix)
    IN  IF ext \in IMAGE_EXTS THEN "photo"
        ELSE IF ext \in AUDIO_EXTS THEN "audio"
        ELSE IF ext \in VIDEO_EXTS THEN "video"
        ELSE "unknown"

\* a photo bucket that also takes the files of unknown type
Bucket_WithUnknown(fs, mod) ==
    SelectSeq(fs, LAMBDA f : \/ Modality(f) = mod
                             \/ mod = "photo" /\ Modality(f) = "unknown")

\* categorize: one bucket, in the order of the file list
Bucket(fs, mod) == SelectSeq(fs, LAMBDA f : Modality(f) = mod)

modality_order == <<"photo", "audio", "video">>

\* the exceptions the try body of mark_video raises
TryBodyRaises(src) ==
    {ProbeExcept(ProbeException(o, src)) : o \in ProbeOutcomes \ {"ok"}}
    \cup {Exc("InvalidMediaError", k, "none") :
             k \in {"no-media-streams", "no-video-stream", "invalid-resolution",
                    "unsupported-video-codec", "unsupported-audio-codec"}}
    \cup {CalledProcessError(cmd_remux("remux_main", src, "h264", Path(TempDir, "main_uid", ".ts"))),
          Exc("FileNotFoundError", "raw", "none")}

\* how a call of mark_video made by process_video can end: None for a
\* return, else the exception that leaves it
MarkVideoEnds(src) ==
    {None, Exc("InputFileNotFoundError", "input-not-found", "none"),
     Exc("InvalidOutputPathError", "invalid-output-path", "OSError")}
    \cup {ExceptClauses(e) : e \in TryBodyRaises(src)}

\* how a call of mark_image can end
MarkImageEnds ==
    {None, Exc("InputFileNotFoundError", "input-not-found", "none"),
     Exc("InvalidOutputPathError", "invalid-output-path", "OSError"),
     Exc("ImageMarkingError", "unexpected-processing-failure", "Exception")}

\* how a call of mark_audio can end
MarkAudioEnds ==
    {None, Exc("InputFileNotFoundError", "input-not-found", "none"),
     Exc("InvalidOutputPathError", "invalid-output-path", "OSError"),
     Exc("FFmpegNotFoundError", "tool-not-found", "none"),
     FFmpegProcessError(None, None, "CalledProcessError"),
     Exc("AudioMarkingError", "unexpected-processing-failure", "Exception")}

MarkEnds(mod, src) ==
    CASE mod = "photo" -> MarkImageEnds
      [] mod = "audio" -> MarkAudioEnds
      [] OTHER -> MarkVideoEnds(src)

\* process_photo, process_audio, process_video: the tuple returned when the
\* mark function returned or raised a MarkerError, else the exception that
\* leaves the worker and is stored in the future
Process(mod, path, out_path, e) ==
    IF e = None
    THEN [modality |-> mod, path |-> path, out_path |-> out_path, success |-> TRUE,
          error |-> "none", raises |-> "none"]
    ELSE IF isinstance(e, "MarkerError")
    THEN [modality |-> mod, path |-> path, out_path |-> out_path, success |-> FALSE,
          error |-> e.type, raises |-> "none"]
    ELSE [modality |-> mod, path |-> path, out_path |-> out_path, success |-> FALSE,
          error |-> "none", raises |-> e.type]

VideoIdle ==
    /\ input_path = None
    /\ output_path = None
    /\ resolution = None
    /\ files = {}
    /\ dirs = {}
    /\ parents = {}
    /\ pc = "idle"
    /\ output_p = None
    /\ probe = None
    /\ width = 0
    /\ height = 0
    /\ video_codec = ""
    /\ marker_container = None
    /\ marker_ts = None
    /\ main_ts = None
    /\ invoked = <<>>
    /\ raised = None
    /\ escaped = None
    /\ created = {}
    /\ remove_failed = {}

\* the state in which run_pipeline is called
BatchInit ==
    /\ all_files \in FileLists
    /\ jobs \in 1..MaxJobs
    /\ preserve_structure \in BOOLEAN
    /\ b_pc = "stage"
    /\ stage = 1
    /\ futures = <<>>
    /\ consumed = {}
    /\ summary = <<>>
    /\ b_raised = "none"

Future(f) == [file |-> f, state |-> "pending", out_path |-> None, result |-> None]

\* lines 83-86: a modality without files is skipped
SkipStage ==
    /\ b_pc = "stage"
    /\ stage <= Len(modality_order)
    /\ Bucket(all_files, modality_order[stage]) = <<>>
    /\ stage' = stage + 1
    /\ UNCHANGED non_batch_vars
    /\ UNCHANGED <<b_pc, all_files, jobs, preserve_structure, futures, consumed, summary, b_raised>>

\* lines 93-98: the pool is created and every file of the modality submitted
SubmitStage ==
    /\ b_pc = "stage"
    /\ stage <= Len(modality_order)
    /\ LET items == Bucket(all_files, modality_order[stage])
       IN  /\ items # <<>>
           /\ futures' = [i \in 1..Len(items) |-> Future(items[i])]
    /\ consumed' = {}
    /\ b_pc' = "collect"
    /\ UNCHANGED non_batch_vars
    /\ UNCHANGED <<all_files, jobs, preserve_structure, stage, summary, b_raised>>

Running == {i \in 1..Len(futures) : futures[i].state = "running"}

Pending == {i \in 1..Len(futures) : futures[i].state = "pending"}

\* a free worker thread of the pool takes the oldest queued task
WorkerStart ==
    /\ b_pc \in {"collect", "unwind"}
    /\ Cardinality(Running) < jobs
    /\ Pending # {}
    /\ LET i == CHOOSE j \in Pending : \A k \in Pending : j <= k
       IN  futures' = [futures EXCEPT
                          ![i].state = "running",
                          ![i].out_path = construct_output_path(
                                             futures[i].file, output_base,
                                             modality_order[stage], preserve_structure)]
    /\ UNCHANGED non_batch_vars
    /\ UNCHANGED <<b_pc, all_files, jobs, preserve_structure, stage, consumed, summary, b_raised>>

\* a worker's processor call ends: the future holds its tuple or its exception
WorkerFinish ==
    /\ b_pc \in {"collect", "unwind"}
    /\ \E i \in Running :
          \E e \in MarkEnds(modality_order[stage], futures[i].file) :
             futures' = [futures EXCEPT ![i].state = "done",
                            ![i].result = Process(modality_order[stage], futures[i].file,
                                                  futures[i].out_path, e)]
    /\ UNCHANGED non_batch_vars
    /\ UNCHANGED <<b_pc, all_files, jobs, preserve_structure, stage, consumed, summary, b_raised>>

\* lines 100-107: as_completed yields a finished future; future.result()
\* returns its tuple, which is appended, or raises its exception
Collect ==
    /\ b_pc = "collect"
    /\ \E i \in 1..Len(futures) :
          /\ futures[i].state = "done"
          /\ i \notin consumed
          /\ consumed' = consumed \cup {i}
          /\ IF futures[i].result.raises = "none"
             THEN /\ summary' = Append(summary, futures[i].result)
                  /\ UNCHANGED <<b_pc, b_raised>>
             ELSE /\ b_raised' = futures[i].result.raises
                  /\ b_pc' = "unwind"
                  /\ UNCHANGED summary
    /\ UNCHANGED non_batch_vars
    /\ UNCHANGED <<all_files, jobs, preserve_structure, stage, futures>>

\* a stage that ends as soon as one result was collected, without waiting
\* for the other workers
EndStage_NoBarrier ==
    /\ b_pc = "collect"
    /\ consumed # {}
    /\ stage' = stage + 1
    /\ b_pc' = "stage"
    /\ UNCHANGED non_batch_vars
    /\ UNCHANGED <<all_files, jobs, preserve_structure, futures, consumed, summary, b_raised>>

\* lines 108-111: every future was consumed, the with block ends
EndStage ==
    /\ b_pc = "collect"
    /\ consumed = 1..Len(futures)
    /\ stage' = stage + 1
    /\ b_pc' = "stage"
    /\ UNCHANGED non_batch_vars
    /\ UNCHANGED <<all_files, jobs, preserve_structure, futures, consumed, summary, b_raised>>

\* line 93: the with block is left by an exception; the executor's shutdown
\* waits for every submitted task, then the exception leaves run_pipeline
Unwind ==
    /\ b_pc = "unwind"
    /\ \A i \in 1..Len(futures) : futures[i].state = "done"
    /\ b_pc' = "raised"
    /\ UNCHANGED non_batch_vars
    /\ UNCHANGED <<all_files, jobs, preserve_structure, stage, futures, consumed, summary, b_raised>>

\* line 116: the summary is returned
Return ==
    /\ b_pc = "stage"
    /\ stage > Len(modality_order)
    /\ b_pc' = "returned"
    /\ UNCHANGED non_batch_vars
    /\ UNCHANGED <<all_files, jobs, preserve_structure, stage, futures, consumed, summary, b_raised>>

BatchNext ==
    \/ SkipStage
    \/ SubmitStage
    \/ WorkerStart
    \/ WorkerFinish
    \/ Collect
    \/ EndStage
    \/ Unwind
    \/ Return

NextBatch == BatchNext

InitBatch == VideoIdle /\ BatchInit /\ PairIdle /\ MainIdle

SpecBatch == InitBatch /\ [][NextBatch]_vars

(***************************************************************************)
(* The decisions of mark_video as a function of the probe result: the      *)
(* verdict of lines 84-113 and the commands of lines 116-165               *)
(***************************************************************************)
PlanInput == Path("in", "clip", ".mp4")

PlanOutput == with_stem_marked(PlanInput)

\* the four ffmpeg commands built for an accepted probe result
Commands(streams, res, src, out) ==
    LET vs    == FirstStream(streams, "video")
        codec == Lower(vs.codec_name)
        mc    == Path(TempDir, "marker_uid", ".mp4")
        mts   == Path(TempDir, "marker_uid", ".ts")
        ts    == Path(TempDir, "main_uid", ".ts")
    IN  <<cmd_marker(codec, ResolveWidth(res, vs), ResolveHeight(res, vs), mc),
          cmd_remux("remux_marker", mc, codec, mts),
          cmd_remux("remux_main", src, codec, ts),
          final_cmd(mts, ts, out)>>

Plan(streams, res) ==
    LET verdict == ValidateStreams(streams, res)
    IN  [verdict  |-> verdict,
         commands |-> IF verdict = "ok"
                      THEN Commands(streams, res, PlanInput, PlanOutput)
                      ELSE <<>>]

\* the first stream of a kind, by position in the probe's list
StreamAt(streams, kind) ==
    LET idx == {i \in 1..Len(streams) : streams[i].codec_type = kind}
    IN  IF idx = {} THEN None
        ELSE streams[CHOOSE i \in idx : \A j \in idx : i <= j]

\* two probe results with the same first video and the same first audio stream
AgreeOnFirstStreams(s1, s2) ==
    /\ StreamAt(s1, "video") = StreamAt(s2, "video")
    /\ StreamAt(s1, "audio") = StreamAt(s2, "audio")

PairInit ==
    /\ p_pc = "first"
    /\ p_resolution \in Resolutions
    /\ first_streams \in StreamLists
    /\ second_streams = <<>>
    /\ first_plan = None
    /\ second_plan = None

\* mark_video decides on the first probe result
PlanFirst ==
    /\ p_pc = "first"
    /\ first_plan' = Plan(first_streams, p_resolution)
    /\ p_pc' = "second"
    /\ UNCHANGED <<p_resolution, first_streams, second_streams, second_plan>>
    /\ UNCHANGED non_pair_vars

\* mark_video decides on a second probe result that has the same first
\* video and first audio stream
PlanSecond ==
    /\ p_pc = "second"
    /\ \E s \in StreamLists :
          /\ AgreeOnFirstStreams(first_streams, s)
          /\ second_streams' = s
          /\ second_plan' = Plan(s, p_resolution)
    /\ p_pc' = "compared"
    /\ UNCHANGED <<p_resolution, first_streams, first_plan>>
    /\ UNCHANGED non_pair_vars

PairNext ==
    \/ PlanFirst
    \/ PlanSecond

NextPair == PairNext

InitPair == VideoIdle /\ BatchIdle /\ PairInit /\ MainIdle

SpecPair == InitPair /\ [][NextPair]_vars

(***************************************************************************)
(* main and gather_files: from the command line to the pipeline            *)
(***************************************************************************)
\* the files of the tree the command runs in, in the order glob lists them;
\* out is the output directory and holds the output of an earlier run
TreeFiles ==
    <<Path(".", "e", ".txt"), Path("in/sub", "c", ".mp4"), Path("out", "a_marked", ".JPG")>>

\* the directories of the tree, as paths
TreeDirs == {Path("/", ".", ""), Path(".", "in", ""), Path("in", "sub", ""), Path(".", "out", "")}

\* a directory path as the name its files carry in their dir field
DirOf(p) ==
    IF p.dir \in {"/", "."} THEN p.stem ELSE p.dir \o "/" \o p.stem

\* the paths a command line can name: directories, files, a path that
\* does not exist
InputArgs ==
    {Path("/", ".", ""), Path(".", "in", ""), Path(".", "out", ""),
     Path("in/sub", "c", ".mp4"), Path("out", "a_marked", ".JPG"),
     Path(".", "gone", ".mp4")}

InputLists == UNION {[1..n -> InputArgs] : n \in 0..MaxInputs}

is_file(p) == \E i \in 1..Len(TreeFiles) : TreeFiles[i] = p

is_dir(p) == p \in TreeDirs

\* p.glob("**/*" if recursive else "*"), the files among the matches
glob(p, rec) ==
    SelectSeq(TreeFiles,
              LAMBDA f : IF rec THEN IsUnder(f.dir, DirOf(p)) ELSE f.dir = DirOf(p))

\* args.inputs or ["."]
DefaultPaths(paths) == IF paths = <<>> THEN <<Path("/", ".", "")>> ELSE paths

MainInit ==
    /\ m_pc = "gather"
    /\ \E args \in InputLists : input_paths = DefaultPaths(args)
    /\ recursive \in BOOLEAN
    /\ next_path = 1
    /\ result = <<>>
    /\ all_files_bound = FALSE
    /\ warned = FALSE
    /\ m_raised = "none"
    /\ exit_code = -1

\* io.py lines 34-46: one turn of the loop of gather_files
GatherPath ==
    /\ m_pc = "gather"
    /\ next_path <= Len(input_paths)
    /\ LET p == input_paths[next_path]
       IN  IF p = Path(".", output_base, "")
           THEN /\ next_path' = next_path + 1
                /\ UNCHANGED <<result, m_pc>>
           ELSE IF is_file(p)
           THEN /\ result' = Append(result, p)
                /\ next_path' = next_path + 1
                /\ UNCHANGED m_pc
           ELSE IF is_dir(p)
           THEN /\ result' = result \o glob(p, recursive)
                /\ next_path' = next_path + 1
                /\ UNCHANGED m_pc
           ELSE /\ m_pc' = "except"
                /\ UNCHANGED <<result, next_path>>
    /\ UNCHANGED <<input_paths, recursive, all_files_bound, warned, m_raised, exit_code>>
    /\ UNCHANGED non_main_vars

\* io.py line 47 and cli.py line 200: the list is returned and bound to
\* all_files
GatherReturn ==
    /\ m_pc = "gather"
    /\ next_path > Len(input_paths)
    /\ all_files' = result
    /\ all_files_bound' = TRUE
    /\ m_pc' = "check"
    /\ UNCHANGED <<input_paths, recursive, next_path, result, warned, m_raised, exit_code>>
    /\ UNCHANGED <<video_vars, pair_vars>>
    /\ UNCHANGED <<b_pc, jobs, preserve_structure, stage, futures, consumed, summary, b_raised>>

\* cli.py lines 205-209: InputFileNotFoundError is caught, a warning printed
WarnNotFound ==
    /\ m_pc = "except"
    /\ warned' = TRUE
    /\ m_pc' = "check"
    /\ UNCHANGED <<input_paths, recursive, next_path, result, all_files_bound, m_raised,
                   exit_code>>
    /\ UNCHANGED non_main_vars

\* cli.py lines 210-212: "if not all_files" reads the local all_files, which
\* is unbound when gather_files raised
CheckFiles ==
    /\ m_pc = "check"
    /\ IF ~all_files_bound
       THEN /\ m_raised' = "UnboundLocalError"
            /\ exit_code' = 1
            /\ m_pc' = "crashed"
       ELSE IF all_files = <<>>
       THEN /\ exit_code' = 1
            /\ m_pc' = "exited"
            /\ UNCHANGED m_raised
       ELSE /\ m_pc' = "call"
            /\ UNCHANGED <<m_raised, exit_code>>
    /\ UNCHANGED <<input_paths, recursive, next_path, result, all_files_bound, warned>>
    /\ UNCHANGED non_main_vars

\* cli.py lines 214-222: run_pipeline is called with the gathered files
CallPipeline ==
    /\ m_pc = "call"
    /\ jobs' \in 1..MaxJobs
    /\ preserve_structure' \in BOOLEAN
    /\ b_pc' = "stage"
    /\ stage' = 1
    /\ futures' = <<>>
    /\ consumed' = {}
    /\ summary' = <<>>
    /\ b_raised' = "none"
    /\ m_pc' = "pipeline"
    /\ UNCHANGED all_files
    /\ UNCHANGED <<input_paths, recursive, next_path, result, all_files_bound, warned,
                   m_raised, exit_code>>
    /\ UNCHANGED <<video_vars, pair_vars>>

\* cli.py lines 223-226: run_pipeline returned, the summary is printed
PipelineReturned ==
    /\ m_pc = "pipeline"
    /\ b_pc = "returned"
    /\ exit_code' = 0
    /\ m_pc' = "done"
    /\ UNCHANGED <<input_paths, recursive, next_path, result, all_files_bound, warned,
                   m_raised>>
    /\ UNCHANGED non_main_vars

\* cli.py line 216: an exception of run_pipeline leaves main
PipelineRaised ==
    /\ m_pc = "pipeline"
    /\ b_pc = "raised"
    /\ m_raised' = b_raised
    /\ exit_code' = 1
    /\ m_pc' = "crashed"
    /\ UNCHANGED <<input_paths, recursive, next_path, result, all_files_bound, warned>>
    /\ UNCHANGED non_main_vars

MainNext ==
    \/ GatherPath
    \/ GatherReturn
    \/ WarnNotFound
    \/ CheckFiles
    \/ CallPipeline
    \/ PipelineReturned
    \/ PipelineRaised

NextMain == MainNext \/ BatchNext

InitMain == VideoIdle /\ BatchIdle /\ PairIdle /\ MainInit

SpecMain == InitMain /\ [][NextMain]_vars

(***************************************************************************)
(* Properties of mark_video (checked under Spec)                           *)
(***************************************************************************)
Done == pc = "done"

Failed == Done /\ escaped # None

\* the positions in the invocation log of the ffmpeg processes (synthesize,
\* the two remuxes, concat); the probe is the ffprobe process
FfmpegInvocations == {i \in 1..Len(invoked) : invoked[i].cmd.tool = "ffmpeg"}

SynthInvoked == \E i \in 1..Len(invoked) : invoked[i].cmd.step = "synth"

\* the last process invoked was an ffmpeg process that ended with exit
LastFfmpegEnded(exit) ==
    /\ Len(invoked) > 0
    /\ invoked[Len(invoked)].cmd.tool = "ffmpeg"
    /\ invoked[Len(invoked)].exit = exit

Probed == probe # None

video_stream == FirstStream(GetStreams(probe), "video")

audio_stream == FirstStream(GetStreams(probe), "audio")

\* C1 (as stated): once mark_video has returned or raised, no temporary
\* artifact created during the call exists on the filesystem.
C1_NoTempFileAfterCall ==
    Done => \A p \in created : p \notin files

\* C1 (amended): once mark_video has returned or raised, a temporary artifact
\* created during the call exists only if os.remove on it raised OSError in
\* the finally block (the error is swallowed and the file stays); removal is
\* attempted only on artifacts of this call.
C1_TempFileRemainsOnlyIfRemoveFailed ==
    Done => /\ \A p \in created : p \in files => p \in remove_failed
            /\ remove_failed \subseteq created

\* C1 witness: a failed concat after all three artifacts were written, and
\* none of them left.
C1_Witness ==
    /\ Failed
    /\ created = TempPaths
    /\ LastFfmpegEnded("nonzero")
    /\ files \cap TempPaths = {}

\* C2: every error that escapes mark_video is a MarkerError.
C2_OnlyMarkerErrorsEscape ==
    Failed => isinstance(escaped, "MarkerError")

\* C3: when the synthesize, a remux or the concat process exits non-zero,
\* mark_video fails with FFmpegProcessError carrying the failed command and
\* the captured diagnostic text.
C3_NonZeroExitRaisesProcessError ==
    (Done /\ LastFfmpegEnded("nonzero")) =>
        /\ escaped # None
        /\ escaped.type = "FFmpegProcessError"
        /\ escaped.command = invoked[Len(invoked)].cmd
        /\ escaped.stderr # None

PathValidationKinds == {"input-not-found", "unsupported-file-type", "invalid-output-path"}

StreamValidationKinds ==
    {"no-media-streams", "no-video-stream", "invalid-resolution",
     "unsupported-video-codec", "unsupported-audio-codec"}

\* the probe result breaks none of the five rules of the validation step
\* (stated from the rules, not from ValidateStreams)
StreamsAcceptable ==
    /\ Len(GetStreams(probe)) > 0
    /\ video_stream # None
    /\ (IF resolution # None THEN resolution.w ELSE video_stream.width) > 0
    /\ (IF resolution # None THEN resolution.h ELSE video_stream.height) > 0
    /\ Lower(video_stream.codec_name) \in {"h264", "hevc"}
    /\ audio_stream # None => Lower(audio_stream.codec_name) \in {"", "aac"}

\* C5 (as stated): whenever mark_video fails with a validation error, no
\* external process of any kind (probe included) was invoked during the call.
C5_ValidationErrorInvokesNothing ==
    (Failed /\ escaped.kind \in PathValidationKinds \cup StreamValidationKinds)
        => invoked = <<>>

\* C5 (amended): a failure with input-not-found, unsupported-file-type or
\* invalid-output-path invokes no external process; a failure with one of the
\* five stream validation errors has invoked the probe, once and with
\* success, and no encode, remux or concat process; and no encode, remux or
\* concat process is ever invoked on a probe result that breaks a rule.
C5_ValidationErrorInvokesNoFfmpeg ==
    /\ (Failed /\ escaped.kind \in PathValidationKinds) => invoked = <<>>
    /\ (Failed /\ escaped.kind \in StreamValidationKinds) =>
           invoked = <<Invocation(cmd_probe(input_path), "ok")>>
    /\ FfmpegInvocations # {} => (Probed /\ StreamsAcceptable)

\* C5 witness: an unsupported audio codec was reported with the probe as the
\* only process invoked.
C5_Witness ==
    /\ Failed
    /\ escaped.kind = "unsupported-audio-codec"
    /\ Len(invoked) = 1
    /\ invoked[1].cmd.step = "probe"

\* C6: a probe result with an empty or missing stream list makes mark_video
\* fail with InvalidMediaError (no-media-streams), and no synthesize, remux
\* or concat process is invoked in the call.
C6_EmptyStreamsFailNoMediaStreams ==
    (Probed /\ Len(GetStreams(probe)) = 0) =>
        /\ FfmpegInvocations = {}
        /\ pc \in {"validate", "except", "cleanup", "done"}
        /\ pc \in {"except", "cleanup"} =>
              (raised.type = "InvalidMediaError" /\ raised.kind = "no-media-streams")
        /\ Done => /\ escaped # None
                   /\ escaped.type = "InvalidMediaError"
                   /\ escaped.kind = "no-media-streams"

\* C6 witness: the call ended on a probe result without a "streams" key.
C6_Witness ==
    /\ Failed
    /\ Probed
    /\ ~probe.has_streams
    /\ escaped.kind = "no-media-streams"

\* C7 (as stated): if the first video stream has positive resolution and a
\* codec outside {h264, hevc}, mark_video fails with unsupported-video-codec
\* and the synthesizer is never invoked.
C7_BadVideoCodecRejected ==
    /\ SynthInvoked => Lower(video_stream.codec_name) \in {"h264", "hevc"}
    /\ (/\ Done
        /\ Probed
        /\ video_stream # None
        /\ video_stream.width > 0
        /\ video_stream.height > 0
        /\ Lower(video_stream.codec_name) \notin {"h264", "hevc"})
       => (escaped # None /\ escaped.kind = "unsupported-video-codec")

\* C7 (amended): if the resolved resolution (the override when one is given,
\* else the first video stream's width and height) is positive and the first
\* video stream's codec, lower-cased, is outside {h264, hevc}, mark_video
\* fails with unsupported-video-codec; and whenever the synthesizer has been
\* invoked that codec is h264 or hevc.
C7_BadVideoCodecRejectedResolved ==
    /\ SynthInvoked => Lower(video_stream.codec_name) \in {"h264", "hevc"}
    /\ (/\ Done
        /\ Probed
        /\ video_stream # None
        /\ (IF resolution # None THEN resolution.w ELSE video_stream.width) > 0
        /\ (IF resolution # None THEN resolution.h ELSE video_stream.height) > 0
        /\ Lower(video_stream.codec_name) \notin {"h264", "hevc"})
       => /\ escaped # None
          /\ escaped.type = "InvalidMediaError"
          /\ escaped.kind = "unsupported-video-codec"
          /\ FfmpegInvocations = {}

\* C7 witness: a vp9 stream of positive resolution was rejected.
C7_Witness ==
    /\ Failed
    /\ Probed
    /\ video_stream # None
    /\ video_stream.codec_name = "vp9"
    /\ video_stream.width > 0
    /\ escaped.kind = "unsupported-video-codec"

\* the checks that precede the audio check all pass
ReachesAudioCheck ==
    /\ Probed
    /\ Len(GetStreams(probe)) > 0
    /\ video_stream # None
    /\ (IF resolution # None THEN resolution.w ELSE video_stream.width) > 0
    /\ (IF resolution # None THEN resolution.h ELSE video_stream.height) > 0
    /\ Lower(video_stream.codec_name) \in {"h264", "hevc"}

C9_MissingEncoderRaisesNotFound ==
    (/\ Done
     /\ LastFfmpegEnded("notfound")
     /\ invoked[Len(invoked)].cmd.step = "synth")
       => (escaped # None /\ escaped.type = "FFmpegNotFoundError")

\* C10: when the probe fails with FFmpegProcessError, mark_video fails with a
\* VideoMarkingError whose cause is that error, invokes no synthesize, remux
\* or concat process and leaves no temporary file.
C10_ProbeFailureWrapped ==
    (Len(invoked) > 0 /\ invoked[1].exit = "nonzero") =>
        /\ FfmpegInvocations = {}
        /\ created = {}
        /\ files \cap TempPaths = {}
        /\ pc \in {"except", "cleanup", "done"}
        /\ pc = "except" => (raised.type = "VideoMarkingError"
                             /\ raised.cause = "FFmpegProcessError")
        /\ pc \in {"cleanup", "done"} =>
              /\ escaped # None
              /\ escaped.type = "VideoMarkingError"
              /\ escaped.cause = "FFmpegProcessError"

\* C10 witness: the call ended after a probe that exited non-zero.
C10_Witness ==
    /\ Done
    /\ Len(invoked) = 1
    /\ invoked[1].cmd.step = "probe"
    /\ invoked[1].exit = "nonzero"
    /\ escaped # None
    /\ escaped.type = "VideoMarkingError"

(***************************************************************************)
(* Properties of run_pipeline (checked under SpecBatch)                    *)
(***************************************************************************)
Categorized == {i \in 1..Len(all_files) : Modality(all_files[i]) # "unknown"}

BatchEnded == b_pc \in {"returned", "raised"}

\* C4: a failure of any kind while marking one file does not abort the
\* batch: run_pipeline returns its summary, with one entry for every photo,
\* audio and video file, the failed ones marked as failed.
C4_FailureDoesNotAbortBatch ==
    BatchEnded =>
        /\ b_pc = "returned"
        /\ b_raised = "none"
        /\ Len(summary) = Cardinality(Categorized)

(***************************************************************************)
(* Properties of mark_video: commands, resolution, output path, ordering   *)
(***************************************************************************)
Invoked(step) == {i \in 1..Len(invoked) : invoked[i].cmd.step = step}

\* C13: in every run that reaches the concatenation, the concat input lists
\* the marker transport segment first and the main transport segment second,
\* and both are the outputs of the two successful remux steps of this call
\* (the marker remux reading the synthesized clip, the main remux the input).
C13_ConcatMarkerThenMain ==
    \A i \in Invoked("concat") :
       \E j \in Invoked("remux_marker"), k \in Invoked("remux_main"), m \in Invoked("synth") :
          /\ m < j /\ j < k /\ k < i
          /\ invoked[j].exit = "ok"
          /\ invoked[k].exit = "ok"
          /\ invoked[j].cmd.src = invoked[m].cmd.dst
          /\ invoked[k].cmd.src = input_path
          /\ invoked[j].cmd.dst # invoked[k].cmd.dst
          /\ invoked[i].cmd.concat_input = <<invoked[j].cmd.dst, invoked[k].cmd.dst>>

\* C13 witness: a call that returned after a successful concat.
C13_Witness ==
    /\ Done
    /\ escaped = None
    /\ Invoked("concat") # {}

\* C14: the size given to the synthesizer is the override when one is given,
\* whatever the probe says, and the first video stream's width and height
\* otherwise; a resolved dimension <= 0 makes the call fail with
\* invalid-resolution before the synthesizer is invoked.
C14_ResolutionOverride ==
    /\ \A i \in Invoked("synth") :
          /\ invoked[i].cmd.size =
                IF resolution # None THEN <<resolution.w, resolution.h>>
                ELSE <<video_stream.width, video_stream.height>>
          /\ invoked[i].cmd.size[1] > 0
          /\ invoked[i].cmd.size[2] > 0
    /\ (/\ Done
        /\ Probed
        /\ video_stream # None
        /\ \/ (IF resolution # None THEN resolution.w ELSE video_stream.width) <= 0
           \/ (IF resolution # None THEN resolution.h ELSE video_stream.height) <= 0)
       => /\ escaped # None
          /\ escaped.type = "InvalidMediaError"
          /\ escaped.kind = "invalid-resolution"
          /\ FfmpegInvocations = {}

\* C14 witness: the synthesizer ran with the override 640x480 although the
\* probe reported a width of 0.
C14_Witness ==
    /\ Invoked("synth") # {}
    /\ resolution = [w |-> 640, h |-> 480]
    /\ video_stream.width = 0
    /\ \A i \in Invoked("synth") : invoked[i].cmd.size = <<640, 480>>

SupportedVideoExtensions == {".mp4", ".mov", ".avi", ".mkv", ".webm", ".mpg", ".mpeg"}

\* the input path passes the checks that precede those of the output path
InputAccepted ==
    /\ input_path \in files
    /\ Lower(input_path.suffix) \in SupportedVideoExtensions

StepOrder == <<"probe", "synth", "remux_marker", "remux_main", "concat">>

\* C18: the processes invoked in one call are a prefix of probe, synthesize,
\* remux marker, remux main, concatenate; every one but the last has ended
\* with exit status zero; a process that did not is the last one invoked,
\* and the call then goes through the except clauses and cleanup and fails.
C18_InvocationsArePrefix ==
    /\ Len(invoked) <= Len(StepOrder)
    /\ \A i \in 1..Len(invoked) : invoked[i].cmd.step = StepOrder[i]
    /\ \A i \in 1..(Len(invoked) - 1) : invoked[i].exit = "ok"
    /\ (Len(invoked) > 0 /\ invoked[Len(invoked)].exit # "ok")
          => (pc \in {"except", "cleanup", "done"} /\ (Done => escaped # None))

\* C18 witness: the marker remux failed and was the last process of the call.
C18_Witness ==
    /\ Failed
    /\ Len(invoked) = 3
    /\ invoked[3].cmd.step = "remux_marker"
    /\ invoked[3].exit = "nonzero"

ResolvedW == IF resolution # None THEN resolution.w ELSE video_stream.width

ResolvedH == IF resolution # None THEN resolution.h ELSE video_stream.height

\* the call ended in the checks of the probe result or went past them
Validated == Done /\ Probed

\* C19: the checks of a probe result apply in the order no-media-streams,
\* no-video-stream, invalid-resolution, unsupported-video-codec,
\* unsupported-audio-codec: the error reported is that of the earliest check
\* the probe result violates.
C19_EarliestViolationReported ==
    Validated =>
       /\ Len(GetStreams(probe)) = 0 => escaped.kind = "no-media-streams"
       /\ (Len(GetStreams(probe)) > 0 /\ video_stream = None)
             => escaped.kind = "no-video-stream"
       /\ (video_stream # None /\ (ResolvedW <= 0 \/ ResolvedH <= 0))
             => escaped.kind = "invalid-resolution"
       /\ (/\ video_stream # None
           /\ ResolvedW > 0
           /\ ResolvedH > 0
           /\ Lower(video_stream.codec_name) \notin {"h264", "hevc"})
             => escaped.kind = "unsupported-video-codec"
       /\ (/\ video_stream # None
           /\ ResolvedW > 0
           /\ ResolvedH > 0
           /\ Lower(video_stream.codec_name) \in {"h264", "hevc"}
           /\ audio_stream # None
           /\ Lower(audio_stream.codec_name) \notin {"", "aac"})
             => escaped.kind = "unsupported-audio-codec"

\* C19 witness: a first video stream of width 0 and codec vp9 was reported
\* as invalid-resolution.
C19_Witness ==
    /\ Failed
    /\ Probed
    /\ resolution = None
    /\ video_stream # None
    /\ video_stream.width = 0
    /\ video_stream.codec_name = "vp9"
    /\ escaped.kind = "invalid-resolution"

(***************************************************************************)
(* Properties of the decisions (checked under SpecPair)                    *)
(***************************************************************************)
Compared == p_pc = "compared"

\* C20 as stated: two probe results that agree on their first video stream
\* and on their first audio stream (or both lack one) get the same
\* validation result and the same commands.
C20_FirstStreamsDecide ==
    Compared => first_plan = second_plan

\* C20: two probe results that are both empty or both non-empty and agree
\* on their first video stream and on their first audio stream (or both
\* lack one) get the same validation result and the same commands, whatever
\* their later streams of the same kind are.
C20_FirstStreamsDecideNonEmpty ==
    (Compared /\ (Len(first_streams) = 0 <=> Len(second_streams) = 0))
       => first_plan = second_plan

\* C20 witness: an accepted probe result and a second one that adds a vp9
\* video stream after the first video stream; both get the same commands.
C20_Witness ==
    /\ Compared
    /\ first_plan.verdict = "ok"
    /\ Len(first_streams) = 1
    /\ Len(second_streams) = 2
    /\ second_streams[2].codec_type = "video"
    /\ second_streams[2].codec_name = "vp9"
    /\ second_plan = first_plan

(***************************************************************************)
(* Properties of run_pipeline: the paths the workers write                 *)
(***************************************************************************)
\* C12: no two workers that run at the same time on distinct input files
\* have been given the same output path by construct_output_path, for both
\* values of preserve_structure.
C12_RunningWorkersWriteDistinctPaths ==
    \A i \in Running : \A j \in Running :
       futures[i].file # futures[j].file => futures[i].out_path # futures[j].out_path

(***************************************************************************)
(* Properties of main and gather_files (checked under SpecMain)            *)
(***************************************************************************)
path_exists(p) == is_file(p) \/ is_dir(p)

MissingInputs == {i \in 1..Len(input_paths) : ~path_exists(input_paths[i])}

\* the files one existing input path stands for
FilesOf(p, rec) ==
    IF p = Path(".", output_base, "") THEN <<>>
    ELSE IF is_file(p) THEN <<p>>
    ELSE glob(p, rec)

\* the files of the existing input paths, the missing ones skipped
RECURSIVE FilesOfExisting(_, _)
FilesOfExisting(paths, rec) ==
    IF paths = <<>> THEN <<>>
    ELSE (IF path_exists(Head(paths)) THEN FilesOf(Head(paths), rec) ELSE <<>>)
         \o FilesOfExisting(Tail(paths), rec)

\* main is past the test of the gathered list
MainDecided == m_pc \in {"crashed", "exited", "call", "pipeline", "done"}

\* C11: a missing input path is reported as a warning and skipped: the files
\* of the existing input paths are still handed to the pipeline, and the
\* run ends with the fatal exit for "no input files" only when the existing
\* input paths yield no file.
C11_MissingInputSkipped ==
    MainDecided =>
       /\ MissingInputs # {} => warned
       /\ FilesOfExisting(input_paths, recursive) # <<>>
             => /\ m_raised # "UnboundLocalError"
                /\ m_pc # "exited"
                /\ all_files = FilesOfExisting(input_paths, recursive)
       /\ m_pc = "exited" => FilesOfExisting(input_paths, recursive) = <<>>

\* C17: no file gathered so far lies in the output directory or beneath it,
\* whatever the input paths and the recursive flag are.
C17_OutputDirExcluded ==
    \A i \in 1..Len(result) : ~IsUnder(result[i].dir, output_base)

(***************************************************************************)
(* Properties of mark_video: what the call does to the filesystem          *)
(***************************************************************************)
\* the failures of the checks of the input path and of the output path's
\* extension and kind
PathCheckFailure(e) ==
    /\ e # None
    /\ e.kind \in {"input-not-found", "input-not-a-file", "unsupported-file-type",
                   "invalid-output-path"}
    /\ e.cause = "none"

\* C22: a failure with input-not-found, input-not-a-file,
\* unsupported-file-type or invalid-output-path for a bad extension or an
\* existing directory is raised by the first step of the call and leaves the
\* filesystem as the call found it: no directory created, no temporary
\* artifact, no output file, no process invoked.
C22_PathCheckFailureLeavesFilesystem ==
    [][(escaped = None /\ PathCheckFailure(escaped'))
          => /\ pc = "start"
             /\ pc' = "done"
             /\ files' = files
             /\ dirs' = dirs
             /\ parents' = parents
             /\ created' = {}
             /\ invoked' = <<>>]_vars

\* C22 witness: an output path with a bad extension was rejected and the
\* directory it names does not exist after the call.
C22_Witness ==
    /\ Failed
    /\ PathCheckFailure(escaped)
    /\ escaped.kind = "invalid-output-path"
    /\ output_path.dir \notin parents
    /\ output_path \notin files
    /\ created = {}

\* C24: no command of the call writes to the input path and cleanup removes
\* no path equal to it: the destination of every process, the final concat
\* included, and every temporary path differ from the input path.
C24_InputNeverWritten ==
    /\ \A i \in FfmpegInvocations : invoked[i].cmd.dst # input_path
    /\ input_path \notin CleanupPaths(marker_container, marker_ts, main_ts)

(***************************************************************************)
(* Properties of run_pipeline: stage order and the summary                 *)
(***************************************************************************)
InputsOf(mod) == {i \in 1..Len(all_files) : Modality(all_files[i]) = mod}

EntriesOf(mod) == {k \in 1..Len(summary) : summary[k].modality = mod}

\* the workers of a modality that have started
StartedOf(mod) ==
    {i \in 1..Len(futures) :
        futures[i].state # "pending" /\ Modality(futures[i].file) = mod}

\* the submitted tasks of a modality whose worker has not finished
UnfinishedOf(mod) ==
    {i \in 1..Len(futures) :
        futures[i].state # "done" /\ Modality(futures[i].file) = mod}

\* once a file of the later modality is being or has been processed, every
\* file of the earlier one has a finished worker and its entry in the summary
StageBefore(earlier, later) ==
    (StartedOf(later) # {} \/ EntriesOf(later) # {})
       => /\ UnfinishedOf(earlier) = {}
          /\ Cardinality(EntriesOf(earlier)) = Cardinality(InputsOf(earlier))

\* C21: the modalities are processed in the order photo, audio, video with
\* a barrier between them: no audio file starts before every photo worker
\* has finished, no video file before every photo and audio worker has.
C21_StagesInOrderWithBarrier ==
    /\ StageBefore("photo", "audio")
    /\ StageBefore("photo", "video")
    /\ StageBefore("audio", "video")

\* C21 witness: an audio worker runs, and the list holds a photo, whose
\* entry is already in the summary.
C21_Witness ==
    /\ \E i \in StartedOf("audio") : futures[i].state = "running"
    /\ InputsOf("photo") # {}
    /\ EntriesOf("photo") # {}

====
